---- MODULE Spec2Model ----
(***************************************************************************)
(* Guest-memory snapshot / restore protocol of the SVSM                    *)
(* (kernel/src/protocols/backup.rs) together with the address-set registry *)
(* it walks (kernel/src/mm/set.rs) and the per-CPU mapping guard it uses   *)
(* (kernel/src/mm/ptguards.rs).                                            *)
(*                                                                         *)
(* Sizes are scaled: a frame holds PAGE_SIZE bytes and a huge page holds   *)
(* SubFrames frames (4096 and 512 in the build).  Physical addresses are   *)
(* byte addresses, so frame n starts at n * PAGE_SIZE.                     *)
(***************************************************************************)
EXTENDS Integers, Sequences, FiniteSets

\* ------------------------------------------------------------- bounds
\* Bytes in a 4 KiB frame (scaled).
PAGE_SIZE == 2
\* PAGE_SIZE_2M / PAGE_SIZE: 4 KiB frames in a 2 MiB page (scaled).
SubFrames == 2
\* Collaborator failures (mapping, allocation, read fault, RMP) injected
\* in one behaviour.
MaxFaults == 1
\* Guest writes in one behaviour.
MaxWrites == 2
\* Guest writes while one CPU serves requests in sequence.
MaxSeqWrites == 1
\* Frames the writable oracle rejects at any one time.
MaxNonWritable == 1

\* ---------------------------------------------------------- constants
SVSM_FULL_BACKUP == 0
SVSM_RESTORE == 1
SVSM_ENABLE_COPY_ON_WRITE == 2
VIRT_ALIGN_4K == 0
VIRT_ALIGN_2M == 9

PAGE_SIZE_2M == SubFrames * PAGE_SIZE

\* Request codes the guest may pass: the three supported ones, the reserved
\* PARTIAL_RESTORE code 3 and an arbitrary unknown code.
Codes == {0, 1, 2, 3, 42}

CPUs == {"bsp", "ap"}
NoCPU == "none"

Bytes == {0, 1}

PageSizes == {"Regular", "Huge"}

\* The registered candidates: one regular page at frame 1 and one huge page
\* at the first 2 MiB boundary.
RegularBase == PAGE_SIZE
HugeBase == PAGE_SIZE_2M
Universe == {<<RegularBase, "Regular">>, <<HugeBase, "Huge">>}

\* The 4 KiB sub-frame addresses of an entry of the declared size.
FramesOf(paddr, size) ==
    IF size = "Huge"
    THEN {paddr + i * PAGE_SIZE : i \in 0..(SubFrames - 1)}
    ELSE {paddr}

Frames == UNION {FramesOf(e[1], e[2]) : e \in Universe}

ZeroFrame == [j \in 1..PAGE_SIZE |-> 0]
Contents == [1..PAGE_SIZE -> Bytes]

VARIABLES
    mem,              \* guest memory: frame address -> PAGE_SIZE bytes
    nonWritable,      \* frames for which writable_phys_addr answers false
    rmpReadOnly,      \* frames whose RMP entry is read-only
    PAGES_TO_BACKUP,  \* Set: set of <<paddr, size>>
    PAGES_TO_CLEAR,   \* Set: set of <<paddr, size>>
    BACKUP_CREATED,   \* SpinLock<bool>
    BACKUP_PAGES,     \* SpinLock<Vec<MemPage4K>>: seq of [phys_addr, data]
    ZERO_PAGES,       \* SpinLock<Vec<PhysAddr>>
    lock,             \* holder of each spin lock: the two record sequences
                      \* and the two address sets
    heap,             \* storage frames allocated and not released
    cpu,              \* per CPU: the request being served and its locals
    faults,           \* collaborator failures still to be injected
    writes            \* guest writes still to come

globals == <<mem, nonWritable, rmpReadOnly, PAGES_TO_BACKUP, PAGES_TO_CLEAR,
             BACKUP_CREATED, BACKUP_PAGES, ZERO_PAGES, lock, heap>>
vars == <<globals, cpu, faults, writes>>

\* The snapshot store.
store == <<BACKUP_PAGES, ZERO_PAGES, BACKUP_CREATED>>

NoGuard == [live |-> FALSE]
\* What a request returned, and the info line create_full_backup logs when it
\* finds the snapshot already made (the one log line that tells apart two
\* paths with the same return value).
Result(request, status) == [req |-> request, status |-> status, log |-> ""]
NoResult == Result(-1, "none")
AlreadyExists(request) ==
    [req |-> request, status |-> "Ok", log |-> "Backup already exists"]

\* Locals of a CPU that is not inside a request:
\*   pc          position in the request
\*   result      the last request code and what it returned ("pending" inside)
\*   walk, pos   the cloned address sequence and the index of the entry at hand
\*               (in restore: the index into the record sequence)
\*   sub_i       loop variable i of the huge-page loop of backup_page
\*   start_addr  the paddr handed to backup_4k_page
\*   ref_page    bytes copied into the storage frame so far
\*   zero        the `zero` flag of backup_4k_page
\*   guard       the live PerCPUPageMappingGuard
\*   rmpLog      the rmp_set_read_only calls made by this request
\*   ret         the last call this CPU made on an address set and what it
\*               returned
NoRet == [op |-> "none", val |-> FALSE]
Idle(res) ==
    [pc |-> "idle", result |-> res, walk |-> <<>>, pos |-> 0, sub_i |-> 0,
     start_addr |-> 0, ref_page |-> <<>>, zero |-> TRUE, guard |-> NoGuard,
     rmpLog |-> <<>>, ret |-> NoRet]

\* ------------------------------------------------------------ set.rs
\* Ord of PageSize as derived for the BTreeSet key (PhysAddr, PageSize).
SizeRank(size) == IF size = "Regular" THEN 0 ELSE 1

EntryLess(a, b) ==
    \/ a[1] < b[1]
    \/ a[1] = b[1] /\ SizeRank(a[2]) < SizeRank(b[2])

RECURSIVE SortedSeq(_)
SortedSeq(S) ==
    IF S = {} THEN <<>>
    ELSE LET m == CHOOSE x \in S : \A y \in S \ {x} : EntryLess(x, y)
         IN <<m>> \o SortedSeq(S \ {m})

\* Set::iter_addresses: clone under the lock, iterate the clone in key order.
iter_addresses(set) == SortedSeq(set)

\* `let guard = self.set.lock()` of iter_addresses on the set `name`: CPU c
\* spins until the lock is free and takes it.
IterLock(c, name) ==
    /\ lock[name] = NoCPU
    /\ lock' = [lock EXCEPT ![name] = c]

\* An iter_addresses whose iterator keeps the lock guard alive.
IterKeep(l, name) == l

\* The end of iter_addresses: the guard goes out of scope, the clone is
\* returned.
IterRelease(l, name) == [l EXCEPT ![name] = NoCPU]

\* Set::insert_addr / Set::remove_addr, called by the page-validation paths
\* of other protocols; each holds the set's lock for the one operation.
\* A set keyed on the address alone: the new pair replaces a pair of the
\* same address.
InsertByAddr(set, value, size) ==
    {e \in set : e[1] # value} \cup {<<value, size>>}

insert_addr(set, value, size) == set \cup {<<value, size>>}
remove_addr(set, value, size) == set \ {<<value, size>>}
\* What BTreeSet::remove, and so remove_addr, returns.
remove_addr_found(set, value, size) == <<value, size>> \in set
\* Set::contains_addr and Set::size.
contains_addr(set, value, size) == <<value, size>> \in set
size_of(set) == Cardinality(set)

\* ---------------------------------------------------------- ptguards.rs
\* PAGE_SIZE << alignment, for the two alignments the protocol passes.
AlignUnit(alignment) ==
    IF alignment = VIRT_ALIGN_2M THEN PAGE_SIZE_2M ELSE PAGE_SIZE

\* The three assertions of PerCPUPageMappingGuard::create.
GuardAsserts(paddr_start, paddr_end, alignment) ==
    /\ (paddr_end - paddr_start) % AlignUnit(alignment) = 0
    /\ paddr_start % AlignUnit(alignment) = 0
    /\ paddr_end % AlignUnit(alignment) = 0

\* The guard PerCPUPageMappingGuard::create returns on success.
GuardCreate(paddr_start, paddr_end, alignment) ==
    [live |-> TRUE, paddr_start |-> paddr_start, paddr_end |-> paddr_end,
     alignment |-> alignment,
     huge |-> /\ paddr_start % PAGE_SIZE_2M = 0
              /\ paddr_end % PAGE_SIZE_2M = 0]

\* ------------------------------------------------------------ backup.rs
\* A dispatcher that routes the reserved PARTIAL_RESTORE code to restore.
HandlerPartialRestore(request) ==
    CASE request = SVSM_FULL_BACKUP -> "create_full_backup"
      [] request \in {SVSM_RESTORE, 3} -> "restore_pages_from_backup"
      [] request = SVSM_ENABLE_COPY_ON_WRITE -> "enable_copy_on_write"
      [] OTHER -> "unsupported_call"

\* The match of backup_protocol_request.
Handler(request) ==
    CASE request = SVSM_FULL_BACKUP -> "create_full_backup"
      [] request = SVSM_RESTORE -> "restore_pages_from_backup"
      [] request = SVSM_ENABLE_COPY_ON_WRITE -> "enable_copy_on_write"
      [] OTHER -> "unsupported_call"


\* A return that forgets the mapping guard instead of dropping it.
ReturnLeak(c, status) ==
    cpu' = [cpu EXCEPT ![c] =
        [Idle(Result(cpu[c].result.req, status)) EXCEPT
            !.guard = cpu[c].guard]]

\* A `?` or a `return`: the request ends with `status`; the locals (the
\* guard among them) are dropped.
Return(c, status) ==
    cpu' = [cpu EXCEPT ![c] = Idle(Result(cpu[c].result.req, status))]

\* A failure that is logged and not returned: the request carries on.
Swallow(c, e) == cpu' = cpu

\* The `?` operator on an Err(e) from a collaborator.
Propagate(c, e) == Return(c, e)

\* A return that leaves the lock guards alive.
StillLocked(c) == lock

\* The spin locks this CPU holds are released when their guards go out of
\* scope at the end of restore_pages_from_backup.
Unlocked(c) == [l \in DOMAIN lock |-> IF lock[l] = c THEN NoCPU ELSE lock[l]]

\* A check that never finds the snapshot made.
NeverCreated(created) == FALSE

\* The first check of create_full_backup: `if *(BACKUP_CREATED.lock())`.
AlreadyCreated(created) == created

\* backup_protocol_request(request, _params), up to the first lock the
\* handler takes.
Dispatch(c, request) ==
    /\ cpu[c].pc = "idle"
    /\ LET entered == Idle(Result(request, "pending")) IN
       CASE Handler(request) = "create_full_backup" ->
              IF AlreadyCreated(BACKUP_CREATED)
              THEN cpu' = [cpu EXCEPT ![c] = Idle(AlreadyExists(request))]
              ELSE cpu' = [cpu EXCEPT ![c] = [entered EXCEPT !.pc = "fb_iter"]]
         [] Handler(request) = "restore_pages_from_backup" ->
              cpu' = [cpu EXCEPT ![c] = [entered EXCEPT !.pc = "rs_lock_pages"]]
         [] Handler(request) = "enable_copy_on_write" ->
              cpu' = [cpu EXCEPT ![c] = [entered EXCEPT !.pc = "cow_iter"]]
         [] OTHER ->
              cpu' = [cpu EXCEPT ![c] =
                  Idle(Result(request, "UnsupportedCall"))]
    /\ UNCHANGED <<globals, faults, writes>>

backup_protocol_request(c) == \E request \in Codes : Dispatch(c, request)

\* Line 90 of backup_page: the address the huge-page loop computes after
\* its i-th call of backup_4k_page.
HugeNextAddr(paddr, i) == paddr + i * PAGE_SIZE

\* Locals on entering backup_page for entry walk[p], or the end of the loop
\* of create_full_backup when the walk is exhausted.
EnterEntry(l, p) ==
    IF p > Len(l.walk)
    THEN [l EXCEPT !.pc = "fb_done", !.pos = p]
    ELSE [l EXCEPT !.pc = "cap_begin", !.pos = p, !.sub_i = 0,
                   !.start_addr = l.walk[p][1]]

\* `for (phys_addr, size) in PAGES_TO_BACKUP.iter_addresses()`: the call
\* takes the set's lock ...
fb_iter_lock(c) ==
    /\ cpu[c].pc = "fb_iter"
    /\ IterLock(c, "PAGES_TO_BACKUP")
    /\ cpu' = [cpu EXCEPT ![c].pc = "fb_clone"]
    /\ UNCHANGED <<mem, nonWritable, rmpReadOnly, PAGES_TO_BACKUP,
                   PAGES_TO_CLEAR, BACKUP_CREATED, BACKUP_PAGES, ZERO_PAGES,
                   heap, faults, writes>>

\* ... clones the set, drops the lock, and the loop starts on the clone.
fb_iter(c) ==
    /\ cpu[c].pc = "fb_clone"
    /\ cpu' = [cpu EXCEPT ![c] =
           EnterEntry([@ EXCEPT !.walk = iter_addresses(PAGES_TO_BACKUP)], 1)]
    /\ lock' = IterRelease(lock, "PAGES_TO_BACKUP")
    /\ UNCHANGED <<mem, nonWritable, rmpReadOnly, PAGES_TO_BACKUP,
                   PAGES_TO_CLEAR, BACKUP_CREATED, BACKUP_PAGES, ZERO_PAGES,
                   heap, faults, writes>>

\* backup_4k_page, lines 99-106: map the frame, allocate the storage frame.
cap_begin(c) ==
    /\ cpu[c].pc = "cap_begin"
    /\ LET paddr == cpu[c].start_addr IN
       \/ /\ GuardAsserts(paddr, paddr + PAGE_SIZE, VIRT_ALIGN_4K)
          /\ cpu' = [cpu EXCEPT ![c].pc = "cap_read",
                                ![c].guard = GuardCreate(paddr, paddr + PAGE_SIZE,
                                                         VIRT_ALIGN_4K),
                                ![c].ref_page = <<>>,
                                ![c].zero = TRUE]
          /\ heap' = heap + 1
          /\ UNCHANGED faults
       \/ /\ ~GuardAsserts(paddr, paddr + PAGE_SIZE, VIRT_ALIGN_4K)
          /\ cpu' = [cpu EXCEPT ![c].pc = "panic"]
          /\ UNCHANGED <<heap, faults>>
       \/ /\ faults > 0
          /\ \E e \in {"Mapping", "OutOfMemory"} : Propagate(c, e)
          /\ faults' = faults - 1
          /\ UNCHANGED heap
    /\ UNCHANGED <<mem, nonWritable, rmpReadOnly, PAGES_TO_BACKUP,
                   PAGES_TO_CLEAR, BACKUP_CREATED, BACKUP_PAGES, ZERO_PAGES,
                   lock, writes>>

\* A flag that only remembers the byte read last.
ZeroAfterLastByte(zero, byte) == byte = 0

\* Lines 109-111: the zero flag after one more byte.
ZeroAfter(zero, byte) == IF byte # 0 THEN FALSE ELSE zero

\* One iteration of the copy loop of backup_4k_page (lines 107-113); a
\* read_u8 fault returns with the storage frame still leaked.
cap_read(c) ==
    /\ cpu[c].pc = "cap_read"
    /\ LET i == Len(cpu[c].ref_page)
           byte == mem[cpu[c].start_addr][i + 1]
       IN
       \/ /\ cpu' = [cpu EXCEPT
                 ![c].zero = ZeroAfter(@, byte),
                 ![c].ref_page = Append(@, byte),
                 ![c].pc = IF i + 1 = PAGE_SIZE THEN "cap_push" ELSE "cap_read"]
          /\ UNCHANGED faults
       \/ /\ faults > 0
          /\ Propagate(c, "GuestRead")
          /\ faults' = faults - 1
    /\ UNCHANGED <<globals, writes>>

\* Locals after backup_4k_page returned Ok inside backup_page: the regular
\* arm returns at once, the huge arm runs line 90 and the next iteration.
AfterCapture(l) ==
    LET e == l.walk[l.pos]
        done == [l EXCEPT !.guard = NoGuard, !.ref_page = <<>>, !.zero = TRUE]
    IN  IF e[2] = "Regular"
        THEN EnterEntry(done, l.pos + 1)
        ELSE IF l.sub_i + 1 = PAGE_SIZE_2M \div PAGE_SIZE
             THEN EnterEntry(done, l.pos + 1)
             ELSE [done EXCEPT !.pc = "cap_begin",
                               !.start_addr = HugeNextAddr(e[1], l.sub_i),
                               !.sub_i = l.sub_i + 1]

\* A record put at the front of the sequence.
push_front(vec, value) == <<value>> \o vec

\* Vec::push on the locked sequence (lines 117 and 121).
push(vec, value) == Append(vec, value)

\* Lines 114-127 of backup_4k_page: record the frame under the lock of the
\* sequence it goes to.
cap_push(c) ==
    /\ cpu[c].pc = "cap_push"
    /\ IF cpu[c].zero
       THEN /\ lock.ZERO_PAGES = NoCPU
            /\ ZERO_PAGES' = push(ZERO_PAGES, cpu[c].start_addr)
            /\ heap' = heap - 1
            /\ UNCHANGED BACKUP_PAGES
       ELSE /\ lock.BACKUP_PAGES = NoCPU
            /\ BACKUP_PAGES' = push(BACKUP_PAGES,
                   [phys_addr |-> cpu[c].start_addr, data |-> cpu[c].ref_page])
            /\ UNCHANGED <<ZERO_PAGES, heap>>
    /\ cpu' = [cpu EXCEPT ![c] = AfterCapture(@)]
    /\ UNCHANGED <<mem, nonWritable, rmpReadOnly, PAGES_TO_BACKUP,
                   PAGES_TO_CLEAR, BACKUP_CREATED, lock, faults,
                   writes>>

\* Lines 64-69 of create_full_backup.
fb_done(c) ==
    /\ cpu[c].pc = "fb_done"
    /\ BACKUP_CREATED' = TRUE
    /\ Return(c, "Ok")
    /\ UNCHANGED <<mem, nonWritable, rmpReadOnly, PAGES_TO_BACKUP,
                   PAGES_TO_CLEAR, BACKUP_PAGES, ZERO_PAGES, lock, heap,
                   faults, writes>>


\* The writable-physical-address oracle of mm.
writable_phys_addr(paddr) == paddr \notin nonWritable

\* A restore_page without the oracle check.
RestorePageNeverSkips(paddr_dest) == FALSE

\* Line 158 of restore_page and line 172 of zero_page: the skip test.
RestorePageSkips(paddr_dest) == ~writable_phys_addr(paddr_dest)
ZeroPageSkips(paddr) == ~writable_phys_addr(paddr)

\* `let guard = BACKUP_PAGES.lock()` of restore_pages_from_backup: the lock
\* stays held until the function returns.
rs_lock_pages(c) ==
    /\ cpu[c].pc = "rs_lock_pages"
    /\ lock.BACKUP_PAGES = NoCPU
    /\ lock' = [lock EXCEPT !.BACKUP_PAGES = c]
    /\ cpu' = [cpu EXCEPT ![c].pc = "rs_pages", ![c].pos = 1]
    /\ UNCHANGED <<mem, nonWritable, rmpReadOnly, PAGES_TO_BACKUP,
                   PAGES_TO_CLEAR, BACKUP_CREATED, BACKUP_PAGES, ZERO_PAGES,
                   heap, faults, writes>>

\* restore_page(page_src) for the next record of BACKUP_PAGES.
restore_page(c) ==
    /\ cpu[c].pc = "rs_pages"
    /\ cpu[c].pos <= Len(BACKUP_PAGES)
    /\ LET page_src == BACKUP_PAGES[cpu[c].pos]
           paddr_dest == page_src.phys_addr
       IN
       \/ /\ RestorePageSkips(paddr_dest)
          /\ cpu' = [cpu EXCEPT ![c].pos = @ + 1]
          /\ UNCHANGED <<mem, lock, faults>>
       \/ /\ ~RestorePageSkips(paddr_dest)
          /\ GuardAsserts(paddr_dest, paddr_dest + PAGE_SIZE, VIRT_ALIGN_4K)
          /\ mem' = [mem EXCEPT ![paddr_dest] = page_src.data]
          /\ cpu' = [cpu EXCEPT ![c].pos = @ + 1]
          /\ UNCHANGED <<lock, faults>>
       \/ /\ ~RestorePageSkips(paddr_dest)
          /\ faults > 0
          /\ Propagate(c, "Mapping")
          /\ lock' = Unlocked(c)
          /\ faults' = faults - 1
          /\ UNCHANGED mem
    /\ UNCHANGED <<nonWritable, rmpReadOnly, PAGES_TO_BACKUP, PAGES_TO_CLEAR,
                   BACKUP_CREATED, BACKUP_PAGES, ZERO_PAGES, heap,
                   writes>>

\* `let guard = ZERO_PAGES.lock()` after the loop over BACKUP_PAGES.
rs_lock_zero(c) ==
    /\ cpu[c].pc = "rs_pages"
    /\ cpu[c].pos > Len(BACKUP_PAGES)
    /\ lock.ZERO_PAGES = NoCPU
    /\ lock' = [lock EXCEPT !.ZERO_PAGES = c]
    /\ cpu' = [cpu EXCEPT ![c].pc = "rs_zero", ![c].pos = 1]
    /\ UNCHANGED <<mem, nonWritable, rmpReadOnly, PAGES_TO_BACKUP,
                   PAGES_TO_CLEAR, BACKUP_CREATED, BACKUP_PAGES, ZERO_PAGES,
                   heap, faults, writes>>

\* zero_page(paddr) for the next address of ZERO_PAGES.
zero_page(c) ==
    /\ cpu[c].pc = "rs_zero"
    /\ cpu[c].pos <= Len(ZERO_PAGES)
    /\ LET paddr == ZERO_PAGES[cpu[c].pos] IN
       \/ /\ ZeroPageSkips(paddr)
          /\ cpu' = [cpu EXCEPT ![c].pos = @ + 1]
          /\ UNCHANGED <<mem, lock, faults>>
       \/ /\ ~ZeroPageSkips(paddr)
          /\ GuardAsserts(paddr, paddr + PAGE_SIZE, VIRT_ALIGN_4K)
          /\ mem' = [mem EXCEPT ![paddr] = ZeroFrame]
          /\ cpu' = [cpu EXCEPT ![c].pos = @ + 1]
          /\ UNCHANGED <<lock, faults>>
       \/ /\ ~ZeroPageSkips(paddr)
          /\ faults > 0
          /\ Propagate(c, "Mapping")
          /\ lock' = Unlocked(c)
          /\ faults' = faults - 1
          /\ UNCHANGED mem
    /\ UNCHANGED <<nonWritable, rmpReadOnly, PAGES_TO_BACKUP, PAGES_TO_CLEAR,
                   BACKUP_CREATED, BACKUP_PAGES, ZERO_PAGES, heap,
                   writes>>

\* Line 148: PAGES_TO_CLEAR.iter_addresses() takes the set's lock while the
\* guards of BACKUP_PAGES and ZERO_PAGES are still alive.
rs_clear_lock(c) ==
    /\ cpu[c].pc = "rs_zero"
    /\ cpu[c].pos > Len(ZERO_PAGES)
    /\ IterLock(c, "PAGES_TO_CLEAR")
    /\ cpu' = [cpu EXCEPT ![c].pc = "rs_clear"]
    /\ UNCHANGED <<mem, nonWritable, rmpReadOnly, PAGES_TO_BACKUP,
                   PAGES_TO_CLEAR, BACKUP_CREATED, BACKUP_PAGES, ZERO_PAGES,
                   heap, faults, writes>>

\* Lines 145-153: the loop over the clone of PAGES_TO_CLEAR, whose body is
\* empty, and the return, which releases the locks of both sequences.
rs_clear(c) ==
    /\ cpu[c].pc = "rs_clear"
    /\ Return(c, "Ok")
    /\ lock' = Unlocked(c)
    /\ UNCHANGED <<mem, nonWritable, rmpReadOnly, PAGES_TO_BACKUP,
                   PAGES_TO_CLEAR, BACKUP_CREATED, BACKUP_PAGES, ZERO_PAGES,
                   heap, faults, writes>>

\* `for (phys_addr, size) in PAGES_TO_BACKUP.iter_addresses()` of
\* enable_copy_on_write: the call takes the set's lock ...
cow_iter_lock(c) ==
    /\ cpu[c].pc = "cow_iter"
    /\ IterLock(c, "PAGES_TO_BACKUP")
    /\ cpu' = [cpu EXCEPT ![c].pc = "cow_clone"]
    /\ UNCHANGED <<mem, nonWritable, rmpReadOnly, PAGES_TO_BACKUP,
                   PAGES_TO_CLEAR, BACKUP_CREATED, BACKUP_PAGES, ZERO_PAGES,
                   heap, faults, writes>>

\* ... clones the set, drops the lock, and the loop starts on the clone.
cow_iter(c) ==
    /\ cpu[c].pc = "cow_clone"
    /\ cpu' = [cpu EXCEPT ![c].pc = "cow_loop",
                          ![c].walk = iter_addresses(PAGES_TO_BACKUP),
                          ![c].pos = 1]
    /\ lock' = IterRelease(lock, "PAGES_TO_BACKUP")
    /\ UNCHANGED <<mem, nonWritable, rmpReadOnly, PAGES_TO_BACKUP,
                   PAGES_TO_CLEAR, BACKUP_CREATED, BACKUP_PAGES, ZERO_PAGES,
                   heap, faults, writes>>

\* A set_read_only that maps a 4 KiB window whatever the declared size.
MapWindowRegular(paddr, size) ==
    [paddr_start |-> paddr, paddr_end |-> paddr + PAGE_SIZE,
     alignment |-> VIRT_ALIGN_4K]

\* Lines 193-200 of set_read_only: the mapping made for an entry.
MapWindow(paddr, size) ==
    IF size = "Huge"
    THEN [paddr_start |-> paddr, paddr_end |-> paddr + PAGE_SIZE_2M,
          alignment |-> VIRT_ALIGN_2M]
    ELSE [paddr_start |-> paddr, paddr_end |-> paddr + PAGE_SIZE,
          alignment |-> VIRT_ALIGN_4K]

\* An RMP primitive that flips the permission of the page.
RmpToggle(rmp, paddr, size) ==
    (rmp \ FramesOf(paddr, size)) \cup (FramesOf(paddr, size) \ rmp)

\* rmp_set_read_only(virt_addr, size), virt_addr mapping paddr: the RMP
\* entries of the page of that size become read-only.
rmp_set_read_only(rmp, paddr, size) == rmp \cup FramesOf(paddr, size)

\* set_read_only(phys_addr, size) for the next entry of the walk.
set_read_only(c) ==
    /\ cpu[c].pc = "cow_loop"
    /\ cpu[c].pos <= Len(cpu[c].walk)
    /\ LET e == cpu[c].walk[cpu[c].pos]
           w == MapWindow(e[1], e[2])
       IN
       \/ /\ GuardAsserts(w.paddr_start, w.paddr_end, w.alignment)
          /\ rmpReadOnly' = rmp_set_read_only(rmpReadOnly, w.paddr_start, e[2])
          /\ cpu' = [cpu EXCEPT
                 ![c].pos = @ + 1,
                 ![c].rmpLog = Append(@,
                     [guard |-> GuardCreate(w.paddr_start, w.paddr_end,
                                            w.alignment),
                      size |-> e[2]])]
          /\ UNCHANGED faults
       \/ /\ faults > 0
          /\ \E err \in {"Mapping", "Rmp"} : Propagate(c, err)
          /\ faults' = faults - 1
          /\ UNCHANGED rmpReadOnly
    /\ UNCHANGED <<mem, nonWritable, PAGES_TO_BACKUP, PAGES_TO_CLEAR,
                   BACKUP_CREATED, BACKUP_PAGES, ZERO_PAGES, lock, heap,
                   writes>>

\* Lines 188-189 of enable_copy_on_write.
cow_done(c) ==
    /\ cpu[c].pc = "cow_loop"
    /\ cpu[c].pos > Len(cpu[c].walk)
    /\ Return(c, "Ok")
    /\ UNCHANGED <<globals, faults, writes>>

\* ------------------------------------------------------- environment
\* The guest stores one byte; a store to a read-only RMP entry traps.
GuestWrite ==
    \E f \in Frames, j \in 1..PAGE_SIZE, b \in Bytes :
        /\ writes > 0
        /\ f \notin rmpReadOnly
        /\ mem[f][j] # b
        /\ mem' = [mem EXCEPT ![f][j] = b]
        /\ writes' = writes - 1
        /\ UNCHANGED <<nonWritable, rmpReadOnly, PAGES_TO_BACKUP,
                       PAGES_TO_CLEAR, BACKUP_CREATED, BACKUP_PAGES,
                       ZERO_PAGES, lock, heap, cpu, faults>>

\* A frame is re-permissioned: the writable oracle changes its answer.
SetWritable ==
    \E f \in Frames :
        /\ nonWritable' = IF f \in nonWritable THEN nonWritable \ {f}
                          ELSE nonWritable \cup {f}
        /\ Cardinality(nonWritable') <= MaxNonWritable
        /\ UNCHANGED <<mem, rmpReadOnly, PAGES_TO_BACKUP, PAGES_TO_CLEAR,
                       BACKUP_CREATED, BACKUP_PAGES, ZERO_PAGES, lock, heap,
                       cpu, faults, writes>>

\* Page-validation paths register and unregister snapshot candidates.
InsertAddr ==
    \E e \in Universe :
        /\ lock.PAGES_TO_BACKUP = NoCPU
        /\ PAGES_TO_BACKUP' = insert_addr(PAGES_TO_BACKUP, e[1], e[2])
        /\ UNCHANGED <<mem, nonWritable, rmpReadOnly, PAGES_TO_CLEAR,
                       BACKUP_CREATED, BACKUP_PAGES, ZERO_PAGES, lock, heap,
                       cpu, faults, writes>>

RemoveAddr ==
    \E e \in Universe :
        /\ lock.PAGES_TO_BACKUP = NoCPU
        /\ PAGES_TO_BACKUP' = remove_addr(PAGES_TO_BACKUP, e[1], e[2])
        /\ UNCHANGED <<mem, nonWritable, rmpReadOnly, PAGES_TO_CLEAR,
                       BACKUP_CREATED, BACKUP_PAGES, ZERO_PAGES, lock, heap,
                       cpu, faults, writes>>

\* The pairs the callers of the registry pass: the candidates and the huge
\* page's base registered as a regular page.
SetUniverse == Universe \cup {<<HugeBase, "Regular">>}
SetNames == {"PAGES_TO_BACKUP", "PAGES_TO_CLEAR"}
SetOf(name) ==
    IF name = "PAGES_TO_BACKUP" THEN PAGES_TO_BACKUP ELSE PAGES_TO_CLEAR

\* One call on the registry `name` by CPU c, which holds the set's lock for
\* the call: the set afterwards and the value returned.
SetCall(c, name, op, after, val) ==
    /\ cpu[c].pc = "idle"
    /\ lock[name] = NoCPU
    /\ PAGES_TO_BACKUP' =
           IF name = "PAGES_TO_BACKUP" THEN after ELSE PAGES_TO_BACKUP
    /\ PAGES_TO_CLEAR' =
           IF name = "PAGES_TO_CLEAR" THEN after ELSE PAGES_TO_CLEAR
    /\ cpu' = [cpu EXCEPT ![c].ret = [op |-> op, val |-> val]]
    /\ UNCHANGED <<mem, nonWritable, rmpReadOnly, BACKUP_CREATED,
                   BACKUP_PAGES, ZERO_PAGES, lock, heap, faults, writes>>

call_insert_addr(c, name, e) ==
    SetCall(c, name, "insert_addr",
            insert_addr(SetOf(name), e[1], e[2]), FALSE)

call_remove_addr(c, name, e) ==
    SetCall(c, name, "remove_addr",
            remove_addr(SetOf(name), e[1], e[2]),
            remove_addr_found(SetOf(name), e[1], e[2]))

call_contains_addr(c, name, e) ==
    SetCall(c, name, "contains_addr",
            SetOf(name), contains_addr(SetOf(name), e[1], e[2]))

call_size(c, name) ==
    SetCall(c, name, "size", SetOf(name), size_of(SetOf(name)))

\* ----------------------------------------------------- specification
\* The statics as constructed: empty sets, empty store, no snapshot.
Boot ==
    /\ nonWritable = {}
    /\ rmpReadOnly = {}
    /\ BACKUP_CREATED = FALSE
    /\ BACKUP_PAGES = <<>>
    /\ ZERO_PAGES = <<>>
    /\ lock = [BACKUP_PAGES |-> NoCPU, ZERO_PAGES |-> NoCPU,
               PAGES_TO_BACKUP |-> NoCPU, PAGES_TO_CLEAR |-> NoCPU]
    /\ heap = 0
    /\ cpu = [c \in CPUs |-> Idle(NoResult)]

Step(c) ==
    \/ backup_protocol_request(c)
    \/ fb_iter_lock(c) \/ fb_iter(c)
    \/ cap_begin(c) \/ cap_read(c) \/ cap_push(c) \/ fb_done(c)
    \/ rs_lock_pages(c) \/ restore_page(c) \/ rs_lock_zero(c) \/ zero_page(c)
    \/ rs_clear_lock(c) \/ rs_clear(c)
    \/ cow_iter_lock(c) \/ cow_iter(c) \/ set_read_only(c) \/ cow_done(c)

\* A fixed memory pattern: the regular frame is all ones, the base of the
\* huge page is all zero, and its other sub-frames are zero but for their
\* last byte.
Pattern ==
    [f \in Frames |->
        IF f = RegularBase THEN [j \in 1..PAGE_SIZE |-> 1]
        ELSE IF f = HugeBase THEN ZeroFrame
        ELSE [j \in 1..PAGE_SIZE |-> IF j = PAGE_SIZE THEN 1 ELSE 0]]

\* All CPUs serve requests while pages are registered and unregistered;
\* guest memory holds a fixed pattern.
Init ==
    /\ Boot
    /\ mem = Pattern
    /\ PAGES_TO_BACKUP = {}
    /\ PAGES_TO_CLEAR = {}
    /\ faults = 0
    /\ writes = 0

Next == (\E c \in CPUs : Step(c)) \/ InsertAddr \/ RemoveAddr

Spec == Init /\ [][Next]_vars

\* One CPU serves requests over registered pages while the guest writes and
\* frames are re-permissioned.
InitSeq ==
    /\ Boot
    /\ mem = Pattern
    /\ PAGES_TO_BACKUP \in SUBSET Universe
    /\ PAGES_TO_CLEAR = {}
    /\ faults = 0
    /\ writes = MaxSeqWrites

NextSeq == Step("bsp") \/ GuestWrite \/ SetWritable

SpecSeq == InitSeq /\ [][NextSeq]_vars

\* One CPU serves requests over registered pages while collaborators fail.
InitErr ==
    /\ Boot
    /\ mem \in [Frames -> {ZeroFrame, [j \in 1..PAGE_SIZE |-> 1]}]
    /\ PAGES_TO_BACKUP \in SUBSET Universe
    /\ PAGES_TO_CLEAR \in SUBSET Universe
    /\ faults = MaxFaults
    /\ writes = 0

NextErr == Step("bsp")

SpecErr == InitErr /\ [][NextErr]_vars

\* The round trip: one CPU takes the snapshot of the pattern, then the guest
\* writes while no request is being served, then the CPU restores.
InitRT ==
    /\ Boot
    /\ mem = Pattern
    /\ PAGES_TO_BACKUP \in SUBSET Universe
    /\ PAGES_TO_CLEAR = {}
    /\ faults = 0
    /\ writes = MaxWrites

NextRT ==
    \/ Step("bsp")
    \/ (BACKUP_CREATED /\ cpu["bsp"].pc = "idle" /\ GuestWrite)

SpecRT == InitRT /\ [][NextRT]_vars

\* All CPUs call the two registries.
InitSet ==
    /\ Boot
    /\ mem = Pattern
    /\ PAGES_TO_BACKUP = {}
    /\ PAGES_TO_CLEAR = {}
    /\ faults = 0
    /\ writes = 0

NextSet ==
    \E c \in CPUs, name \in SetNames :
        \/ \E e \in SetUniverse : call_insert_addr(c, name, e)
        \/ \E e \in SetUniverse : call_remove_addr(c, name, e)
        \/ \E e \in SetUniverse : call_contains_addr(c, name, e)
        \/ call_size(c, name)

SpecSet == InitSet /\ [][NextSet]_vars

\* What CPU c does once it is inside a request: every step but the entry.
Serve(c) ==
    \/ fb_iter_lock(c) \/ fb_iter(c)
    \/ cap_begin(c) \/ cap_read(c) \/ cap_push(c) \/ fb_done(c)
    \/ rs_lock_pages(c) \/ restore_page(c) \/ rs_lock_zero(c) \/ zero_page(c)
    \/ rs_clear_lock(c) \/ rs_clear(c)
    \/ cow_iter_lock(c) \/ cow_iter(c) \/ set_read_only(c) \/ cow_done(c)

\* All CPUs serve the three requests while pages are being registered, and
\* every CPU keeps running: a CPU inside a request executes its next step,
\* and a CPU spinning on a lock takes it once it has been free often enough
\* (the spin lock hands itself to waiters in turn).  Whether a CPU enters
\* another request, and whether a page is registered, is left open.
NextLive ==
    \/ \E c \in CPUs :
           \/ \E request \in {SVSM_FULL_BACKUP, SVSM_RESTORE,
                               SVSM_ENABLE_COPY_ON_WRITE} : Dispatch(c, request)
           \/ Serve(c)
    \/ InsertAddr

SpecLive == Init /\ [][NextLive]_vars /\ \A c \in CPUs : SF_vars(Serve(c))

\* ------------------------------------------------------------- claims
\* Sub-frames a walk entry stands for: 1 for Regular, PAGE_SIZE_2M / PAGE_SIZE
\* for Huge.
EntryFrames(e) == IF e[2] = "Huge" THEN PAGE_SIZE_2M \div PAGE_SIZE ELSE 1

RECURSIVE WalkFrames(_, _)
WalkFrames(w, n) == IF n = 0 THEN 0 ELSE EntryFrames(w[n]) + WalkFrames(w, n - 1)

InCapture(c) == cpu[c].pc \in {"cap_begin", "cap_read", "cap_push", "fb_done"}

\* backup_4k_page calls the create_full_backup in flight on c has completed.
CapturesDone(c) ==
    IF ~InCapture(c) THEN 0
    ELSE WalkFrames(cpu[c].walk, cpu[c].pos - 1)
         + (IF cpu[c].pos <= Len(cpu[c].walk) THEN cpu[c].sub_i ELSE 0)

\* C1: round trip.  When restore returns after a successful full_backup of
\* the pattern, with every frame writable and the guest having written only
\* between the two requests, every 4 KiB sub-frame of every registered entry
\* (the last sub-frame of a Huge entry included) holds what it held at
\* capture time.
C1_RoundTrip ==
    [][\A c \in CPUs :
          (rs_clear(c) /\ BACKUP_CREATED /\ nonWritable = {}) =>
              \A e \in PAGES_TO_BACKUP : \A f \in FramesOf(e[1], e[2]) :
                  mem'[f] = Pattern[f]]_vars

\* C2: double backup is a no-op.  A FULL_BACKUP request made once
\* BACKUP_CREATED is set returns success at once and leaves both record
\* sequences, the flag and the storage heap as they were, with no mapping
\* guard made.
C2_DoubleBackupNoOp ==
    [][\A c \in CPUs :
          (BACKUP_CREATED /\ Dispatch(c, SVSM_FULL_BACKUP)) =>
              /\ cpu'[c].pc = "idle"
              /\ cpu'[c].result.status = "Ok"
              /\ ~cpu'[c].guard.live
              /\ store' = store
              /\ heap' = heap]_vars

\* A second FULL_BACKUP has returned success over a snapshot that holds
\* records.
C2_Witness ==
    \E c \in CPUs :
        /\ cpu[c].result = AlreadyExists(SVSM_FULL_BACKUP)
        /\ Len(BACKUP_PAGES) + Len(ZERO_PAGES) > 0
        /\ BACKUP_CREATED

\* C3: BACKUP_CREATED serialises concurrent FULL_BACKUP calls.  At most one
\* of the calls in flight has appended records to the snapshot store.
C3_AtMostOneCapturingCall ==
    Cardinality({c \in CPUs : CapturesDone(c) > 0}) <= 1

\* C4: record count.  When a full_backup returns success, the two record
\* sequences together hold one record per Regular entry and
\* PAGE_SIZE_2M / PAGE_SIZE records per Huge entry of the sequence that call
\* iterated, whatever requests came before it.
C4_RecordCount ==
    [][\A c \in CPUs :
          fb_done(c) =>
              /\ BACKUP_CREATED'
              /\ Len(BACKUP_PAGES') + Len(ZERO_PAGES')
                   = WalkFrames(cpu[c].walk, Len(cpu[c].walk))]_vars

\* C5: restore zero-fills the pages to clear.  When restore returns
\* success, every writable sub-frame of every entry of PAGES_TO_CLEAR is
\* all zero.
C5_ClearsPagesToClear ==
    [][\A c \in CPUs :
          rs_clear(c) =>
              \A e \in PAGES_TO_CLEAR : \A f \in FramesOf(e[1], e[2]) :
                  writable_phys_addr(f) => mem'[f] = ZeroFrame]_vars

\* C6: restore skips non-writable destinations.  restore_page and zero_page
\* on a record whose address the oracle rejects leave guest memory as it
\* was, make no mapping and go on to the next record; on a record whose
\* address is writable they store the record's bytes (zeros for a
\* ZeroRecord) in that frame and in no other.
C6_RestoreSkipsNonWritable ==
    [][\A c \in CPUs :
          /\ restore_page(c) =>
               LET r == BACKUP_PAGES[cpu[c].pos] IN
               /\ cpu'[c] = [cpu[c] EXCEPT !.pos = @ + 1]
               /\ ~cpu'[c].guard.live
               /\ mem' = IF r.phys_addr \in nonWritable THEN mem
                         ELSE [mem EXCEPT ![r.phys_addr] = r.data]
          /\ zero_page(c) =>
               LET paddr == ZERO_PAGES[cpu[c].pos] IN
               /\ cpu'[c] = [cpu[c] EXCEPT !.pos = @ + 1]
               /\ ~cpu'[c].guard.live
               /\ mem' = IF paddr \in nonWritable THEN mem
                         ELSE [mem EXCEPT ![paddr] = ZeroFrame]
          /\ rs_clear(c) => cpu'[c].result.status = "Ok"]_vars

\* A restore has passed every record: it skipped a non-writable frame whose
\* content differs from its record, and wrote back another frame.
C6_Witness ==
    \E c \in CPUs :
        /\ cpu[c].pc = "rs_zero"
        /\ cpu[c].pos > Len(ZERO_PAGES)
        /\ \E k \in 1..Len(BACKUP_PAGES) :
               /\ BACKUP_PAGES[k].phys_addr \in nonWritable
               /\ mem[BACKUP_PAGES[k].phys_addr] # BACKUP_PAGES[k].data
        /\ \/ \E k \in 1..Len(BACKUP_PAGES) :
                  /\ BACKUP_PAGES[k].phys_addr \notin nonWritable
                  /\ mem[BACKUP_PAGES[k].phys_addr] = BACKUP_PAGES[k].data
           \/ \E k \in 1..Len(ZERO_PAGES) :
                  /\ ZERO_PAGES[k] \notin nonWritable
                  /\ mem[ZERO_PAGES[k]] = ZeroFrame

\* C7: dispatcher.  A request code outside {0, 1, 2} returns UnsupportedCall
\* and changes nothing; codes 0, 1 and 2 enter create_full_backup,
\* restore_pages_from_backup and enable_copy_on_write.
C7_Dispatcher ==
    [][\A c \in CPUs : \A request \in Codes :
          Dispatch(c, request) =>
              CASE request = 0 ->
                     \/ cpu'[c].pc = "fb_iter"
                     \/ cpu'[c].result = AlreadyExists(request)
                [] request = 1 -> cpu'[c].pc = "rs_lock_pages"
                [] request = 2 -> cpu'[c].pc = "cow_iter"
                [] OTHER ->
                     /\ cpu'[c] = Idle(Result(request, "UnsupportedCall"))
                     /\ UNCHANGED globals]_vars

\* The reserved code 3 has been refused while a snapshot exists.
C7_Witness ==
    \E c \in CPUs :
        /\ cpu[c].result = Result(3, "UnsupportedCall")
        /\ BACKUP_CREATED

CollaboratorErrors == {"Mapping", "OutOfMemory", "GuestRead", "Rmp"}

\* C8: error propagation.  The step in which a collaborator fails ends the
\* request with that error; it leaves both record sequences, the created
\* flag, guest memory and the RMP as they were (a failing full_backup keeps
\* its records and leaves created false; a failing enable_copy_on_write
\* keeps the entries it processed read-only and touches no later one).
C8_ErrorPropagation ==
    [][\A c \in CPUs :
          (faults' < faults /\ cpu[c].pc # "idle") =>
              /\ cpu'[c].pc = "idle"
              /\ cpu'[c].result.status \in CollaboratorErrors
              /\ cpu'[c].result.req = cpu[c].result.req
              /\ store' = store
              /\ mem' = mem
              /\ rmpReadOnly' = rmpReadOnly
              /\ InCapture(c) => ~BACKUP_CREATED'
              /\ cpu[c].pc = "cow_loop" =>
                   \A k \in 1..(cpu[c].pos - 1) :
                       FramesOf(cpu[c].walk[k][1], cpu[c].walk[k][2])
                           \subseteq rmpReadOnly']_vars

\* A full_backup has failed after it appended records.
C8_Witness ==
    \E c \in CPUs :
        /\ cpu[c].pc = "idle"
        /\ cpu[c].result.req = SVSM_FULL_BACKUP
        /\ cpu[c].result.status \in CollaboratorErrors
        /\ Len(BACKUP_PAGES) + Len(ZERO_PAGES) > 0
        /\ ~BACKUP_CREATED

IsZero(data) == \A j \in 1..Len(data) : data[j] = 0

\* C9: classification.  backup_4k_page appends a ZeroRecord exactly when
\* every byte it read was zero, and otherwise a NonZeroRecord holding the
\* bytes it read; so every NonZeroRecord has a non-zero byte.
C9_Classification ==
    /\ [](\A k \in 1..Len(BACKUP_PAGES) : ~IsZero(BACKUP_PAGES[k].data))
    /\ [][\A c \in CPUs :
            cap_push(c) =>
                IF IsZero(cpu[c].ref_page)
                THEN /\ ZERO_PAGES' = Append(ZERO_PAGES, cpu[c].start_addr)
                     /\ BACKUP_PAGES' = BACKUP_PAGES
                ELSE /\ BACKUP_PAGES' = Append(BACKUP_PAGES,
                            [phys_addr |-> cpu[c].start_addr,
                             data |-> cpu[c].ref_page])
                     /\ ZERO_PAGES' = ZERO_PAGES]_vars

\* The store holds a ZeroRecord and a NonZeroRecord whose only non-zero byte
\* is its last.
C9_Witness ==
    /\ Len(ZERO_PAGES) > 0
    /\ \E k \in 1..Len(BACKUP_PAGES) :
           BACKUP_PAGES[k].data =
               [j \in 1..PAGE_SIZE |-> IF j = PAGE_SIZE THEN 1 ELSE 0]

\* The call set_read_only is to make for a walk entry.
ExpectedCall(e) ==
    [guard |-> GuardCreate(e[1],
                           e[1] + (IF e[2] = "Huge" THEN PAGE_SIZE_2M
                                   ELSE PAGE_SIZE),
                           IF e[2] = "Huge" THEN VIRT_ALIGN_2M
                           ELSE VIRT_ALIGN_4K),
     size |-> e[2]]

\* C10: ENABLE_COW call set.  When enable_copy_on_write is about to return
\* success it has called rmp_set_read_only once per entry of the sequence it
\* cloned from PAGES_TO_BACKUP, in order, each time on a mapping of the
\* entry's address made at the declared size and with that size; the
\* sequence holds every entry the set had at the call, once.
C10_CowCallSet ==
    /\ [](\A c \in CPUs :
            cpu[c].pc = "cow_loop" =>
                /\ Len(cpu[c].rmpLog) = cpu[c].pos - 1
                /\ \A k \in 1..Len(cpu[c].rmpLog) :
                       cpu[c].rmpLog[k] = ExpectedCall(cpu[c].walk[k])
                /\ \A j, k \in 1..Len(cpu[c].walk) :
                       cpu[c].walk[j] = cpu[c].walk[k] => j = k)
    /\ [][\A c \in CPUs :
            cow_iter(c) =>
                {cpu'[c].walk[k] : k \in 1..Len(cpu'[c].walk)}
                    = PAGES_TO_BACKUP]_vars

\* enable_copy_on_write is about to return success over a Regular and a
\* Huge entry.
C10_Witness ==
    \E c \in CPUs :
        /\ cpu[c].pc = "cow_loop"
        /\ cpu[c].pos > Len(cpu[c].walk)
        /\ {cpu[c].walk[k] : k \in 1..Len(cpu[c].walk)} = Universe

\* Every sub-frame of every entry of a walk is read-only in the RMP.
WalkReadOnly(w) ==
    \A k \in 1..Len(w) : FramesOf(w[k][1], w[k][2]) \subseteq rmpReadOnly

\* C11: ENABLE_COW is monotone and idempotent.  No step of
\* enable_copy_on_write takes a frame out of the read-only set; when it
\* returns success every entry it walked is read-only; and a run over
\* entries that are all read-only already leaves the RMP as it found it, so
\* a second run over the same set changes nothing.
C11_CowMonotoneIdempotent ==
    [][\A c \in CPUs :
          /\ set_read_only(c) =>
               /\ rmpReadOnly \subseteq rmpReadOnly'
               /\ WalkReadOnly(cpu[c].walk) => rmpReadOnly' = rmpReadOnly
          /\ cow_done(c) => WalkReadOnly(cpu[c].walk)]_vars

\* A second enable_copy_on_write is under way: it has processed the first of
\* two entries and the second is read-only from the earlier run.
C11_Witness ==
    /\ cpu["bsp"].pc = "cow_loop"
    /\ cpu["bsp"].pos = 2
    /\ Len(cpu["bsp"].walk) = 2
    /\ Len(cpu["bsp"].rmpLog) = 1
    /\ WalkReadOnly(cpu["bsp"].walk)

\* A CPU is iterating a clone of PAGES_TO_BACKUP.
InWalk(c) == InCapture(c) \/ cpu[c].pc = "cow_loop"

WalkSet(w) == {w[k] : k \in 1..Len(w)}

\* C12: iteration isolation.  iter_addresses returns the set as it is while
\* the lock is held and has dropped the lock when the caller starts to
\* iterate; no CPU holds the set's lock during its per-element work; an
\* insertion or removal leaves every walk in progress as it was.
C12_IterationIsolation ==
    /\ [](\A c \in CPUs : InWalk(c) => lock.PAGES_TO_BACKUP # c)
    /\ [][\A c \in CPUs :
            /\ (fb_iter(c) \/ cow_iter(c)) =>
                 /\ WalkSet(cpu'[c].walk) = PAGES_TO_BACKUP
                 /\ Len(cpu'[c].walk) = Cardinality(PAGES_TO_BACKUP)
                 /\ lock'.PAGES_TO_BACKUP = NoCPU
            /\ (InWalk(c) /\ (InsertAddr \/ RemoveAddr)) =>
                 /\ cpu'[c] = cpu[c]
                 /\ InWalk(c)']_vars

\* A CPU is at the second entry of its walk and the set no longer holds what
\* the walk holds: the set changed after the clone was taken.
C12_Witness ==
    \E c \in CPUs :
        /\ InWalk(c)
        /\ cpu[c].pos = 2
        /\ Len(cpu[c].walk) = 2
        /\ PAGES_TO_BACKUP = {}

\* C13: the registry is a set of (paddr, size) pairs.  insert_addr adds the
\* pair and nothing else, and changes nothing when the pair is there;
\* remove_addr returns whether the pair was there and leaves it absent and
\* the rest as it was; contains_addr returns membership and size the number
\* of distinct pairs, both leaving the set alone; pairs of the same address
\* and different sizes are distinct.  No call touches the other registry.
C13_RegistryIsSet ==
    [][\A c \in CPUs, name \in SetNames :
          LET before == SetOf(name)
              after == SetOf(name)'
              other == CHOOSE n \in SetNames : n # name
          IN
          /\ \A e \in SetUniverse :
               /\ call_insert_addr(c, name, e) =>
                    /\ \A x \in SetUniverse :
                           x \in after <=> (x \in before \/ x = e)
                    /\ e \in before =>
                           Cardinality(after) = Cardinality(before)
                    /\ SetOf(other)' = SetOf(other)
               /\ call_remove_addr(c, name, e) =>
                    /\ cpu'[c].ret.val = (e \in before)
                    /\ \A x \in SetUniverse :
                           x \in after <=> (x \in before /\ x # e)
                    /\ SetOf(other)' = SetOf(other)
               /\ call_contains_addr(c, name, e) =>
                    /\ cpu'[c].ret.val = (e \in before)
                    /\ after = before
                    /\ SetOf(other)' = SetOf(other)
          /\ call_size(c, name) =>
               /\ cpu'[c].ret.val =
                      Cardinality({x \in SetUniverse : x \in before})
               /\ after = before
               /\ SetOf(other)' = SetOf(other)]_vars

\* One CPU has measured three pairs in a registry, two of them of the same
\* address, while the other registry holds one; the other CPU's remove_addr
\* of an absent pair returned false.
C13_Witness ==
    /\ cpu["bsp"].ret.op = "size"
    /\ cpu["bsp"].ret.val = 3
    /\ PAGES_TO_BACKUP = SetUniverse
    /\ Cardinality(PAGES_TO_CLEAR) = 1
    /\ cpu["ap"].ret.op = "remove_addr"
    /\ cpu["ap"].ret.val = FALSE

\* C14: granularity coverage.  For a Huge entry the i-th call of
\* backup_4k_page (i counted from 0) is on paddr + i * PAGE_SIZE, and there
\* are PAGE_SIZE_2M / PAGE_SIZE calls: every sub-frame once, in increasing
\* order, the last one included.
C14_HugeCoverage ==
    \A c \in CPUs :
        (/\ cpu[c].pc \in {"cap_begin", "cap_read", "cap_push"}
         /\ cpu[c].walk[cpu[c].pos][2] = "Huge") =>
            /\ cpu[c].sub_i < PAGE_SIZE_2M \div PAGE_SIZE
            /\ cpu[c].start_addr =
                   cpu[c].walk[cpu[c].pos][1] + cpu[c].sub_i * PAGE_SIZE

\* The locks of the snapshot store that are held across steps.
StoreLocks == {"BACKUP_PAGES", "ZERO_PAGES"}

\* C15: lock ordering.  A CPU that takes the lock of an address set holds no
\* lock of the snapshot store at that moment: address-set locks come before
\* snapshot-store locks in every request, restore's walk of PAGES_TO_CLEAR
\* included.
C15_LockOrdering ==
    [][\A c \in CPUs, name \in SetNames :
          (lock[name] # c /\ lock'[name] = c) =>
              \A l \in StoreLocks : lock[l] # c]_vars

\* C16: mapping scope.  A mapping guard is live only between its creation in
\* backup_4k_page and the return of that call, over the frame being
\* captured; restore_page, zero_page and set_read_only release theirs inside
\* the step; so a CPU that has returned from a request, with success or with
\* an error, has no live guard.
C16_MappingScope ==
    \A c \in CPUs :
        /\ cpu[c].guard.live =>
             /\ cpu[c].pc \in {"cap_read", "cap_push"}
             /\ cpu[c].guard.paddr_start = cpu[c].start_addr
             /\ cpu[c].guard.paddr_end = cpu[c].start_addr + PAGE_SIZE
        /\ cpu[c].pc \in {"cap_read", "cap_push"} => cpu[c].guard.live
        /\ cpu[c].pc = "idle" => ~cpu[c].guard.live

\* A full_backup has returned the read fault that hit it in the copy loop,
\* where the guard was live, after it had appended records.
C16_Witness ==
    \E c \in CPUs :
        /\ cpu[c].pc = "idle"
        /\ cpu[c].result = Result(SVSM_FULL_BACKUP, "GuestRead")
        /\ Len(BACKUP_PAGES) + Len(ZERO_PAGES) > 0

IsPrefix(a, b) ==
    /\ Len(a) <= Len(b)
    /\ \A k \in 1..Len(a) : a[k] = b[k]

\* C17: the snapshot store is append-only and created is monotone.  Every
\* step leaves the records the two sequences hold where and as they are and
\* never resets created; a step of a request other than FULL_BACKUP
\* (restore, enable_copy_on_write, an unsupported code) leaves both
\* sequences, created and both address sets unchanged.
C17_AppendOnly ==
    [][/\ IsPrefix(BACKUP_PAGES, BACKUP_PAGES')
       /\ IsPrefix(ZERO_PAGES, ZERO_PAGES')
       /\ BACKUP_CREATED => BACKUP_CREATED'
       /\ \A c \in CPUs :
            (cpu'[c] # cpu[c] /\ cpu'[c].result.req # SVSM_FULL_BACKUP) =>
                /\ store' = store
                /\ PAGES_TO_BACKUP' = PAGES_TO_BACKUP
                /\ PAGES_TO_CLEAR' = PAGES_TO_CLEAR]_vars

\* With a snapshot holding records of different frames in one sequence, a
\* restore has returned.
C17_Witness ==
    /\ BACKUP_CREATED
    /\ \/ \E j, k \in 1..Len(ZERO_PAGES) : ZERO_PAGES[j] # ZERO_PAGES[k]
       \/ \E j, k \in 1..Len(BACKUP_PAGES) :
              BACKUP_PAGES[j].phys_addr # BACKUP_PAGES[k].phys_addr
    /\ \E c \in CPUs : cpu[c].result = Result(SVSM_RESTORE, "Ok")

\* The sub-frames of an entry in increasing order.
EntrySeq(e) == [i \in 1..EntryFrames(e) |-> e[1] + (i - 1) * PAGE_SIZE]

\* The frames of a walk in iteration order, each entry expanded into its
\* sub-frames in increasing order.
RECURSIVE ExpandWalk(_, _)
ExpandWalk(w, n) ==
    IF n = 0 THEN <<>> ELSE ExpandWalk(w, n - 1) \o EntrySeq(w[n])

\* The frames restore visits, in the order it visits them.
ReplayOrder ==
    [k \in 1..Len(BACKUP_PAGES) |-> BACKUP_PAGES[k].phys_addr] \o ZERO_PAGES

\* C18: ordering.  When the one full_backup that filled the store has
\* appended its last record, the frames restore will replay, in its order,
\* are the frames of the cloned PAGES_TO_BACKUP in iteration order, the
\* sub-frames of a Huge entry in increasing order.
C18_ReplayOrder ==
    \A c \in CPUs :
        (/\ cpu[c].pc = "fb_done"
         /\ Len(BACKUP_PAGES) + Len(ZERO_PAGES)
                = WalkFrames(cpu[c].walk, Len(cpu[c].walk))) =>
            ReplayOrder = ExpandWalk(cpu[c].walk, Len(cpu[c].walk))

\* C19: unique record per frame.  No frame address appears twice across
\* BACKUP_PAGES and ZERO_PAGES together: not in both, not twice in one.
C19_UniqueRecordPerFrame ==
    \A j, k \in 1..Len(ReplayOrder) :
        ReplayOrder[j] = ReplayOrder[k] => j = k

\* C20: storage-frame accounting.  Between requests the storage frames
\* allocated and not released are those the NonZeroRecords own, one each.
C20_StorageFrames ==
    (\A c \in CPUs : cpu[c].pc = "idle") => heap = Len(BACKUP_PAGES)

\* A CPU is inside a request and cannot take its next step: it spins on a
\* lock another CPU holds.
Spinning(c) == cpu[c].pc # "idle" /\ ~ENABLED Serve(c)

\* C21: deadlock freedom and termination.  In no reachable state is every
\* CPU spinning on a lock; and with every CPU running, every request a CPU
\* has entered eventually returns, restore and a concurrent full_backup
\* included.
C21_DeadlockFreeTermination ==
    /\ [](\E c \in CPUs : ~Spinning(c))
    /\ \A c \in CPUs : (cpu[c].pc # "idle") ~> (cpu[c].pc = "idle")

\* A restore holds the locks of both sequences and of PAGES_TO_CLEAR while
\* the other CPU, in a full_backup, spins to append a record.
C21_Witness ==
    \E c, d \in CPUs :
        /\ cpu[c].pc = "rs_clear"
        /\ lock.BACKUP_PAGES = c
        /\ lock.ZERO_PAGES = c
        /\ lock.PAGES_TO_CLEAR = c
        /\ cpu[d].pc = "cap_push"
        /\ Spinning(d)

====
